---- MODULE Spec2Model ----
(***************************************************************************)
(* A model of the train-timeline renderer of src/visualize.py:             *)
(* create_image and the functions it calls.                                *)
(*                                                                         *)
(* Times are whole minutes since local midnight (every datetime the        *)
(* renderer compares or subtracts carries the same tzinfo, so Python works *)
(* on wall-clock values).  A time string is modelled by the minute it      *)
(* denotes, or by NONE (None or the empty string) or BAD (a non-empty      *)
(* string datetime.fromisoformat rejects).  A text is a TLA+ string; only  *)
(* its length is used, every glyph having the same advance width           *)
(* (font_width, the "width" field of the entries of FONT_DATA).            *)
(***************************************************************************)
EXTENDS Integers, Sequences, FiniteSets, TLC

\* ---------------------------------------------------------------- settings
HOURS_TO_SHOW == 3
WIDTH == 800
HEIGHT == 480
LEFT_MARGIN == 50
RIGHT_MARGIN == 40
TOP_MARGIN == 0
BOTTOM_MARGIN == 40
CHAR_WIDTH == 7
CHAR_HEIGHT == 11
CHAR_SPACING == 1
FONT_SCALE == 2

\* None / "" as a time string, and None as the result of parse_time
NONE == -1
\* a non-empty string that is not an ISO time
BAD == -2

\* ------------------------------------------------------------------ bounds
\* longest input list of trains
MaxTrains == 2

\* ---------------------------------------------------------- pure functions
\* Python's a // b for b > 0 (floor division)
FloorDiv(a, b) == IF a >= 0 THEN a \div b ELSE -((-a + b - 1) \div b)

\* Python's int(a / b) for b > 0 (truncation toward zero)
TruncDiv(a, b) == IF a >= 0 THEN a \div b ELSE -((-a) \div b)

Max(a, b) == IF a >= b THEN a ELSE b
Min(a, b) == IF a <= b THEN a ELSE b

\* t.replace(minute=(t.minute // 30) * 30, second=0, microsecond=0)
round_down_to_30min(t) == (t \div 60) * 60 + (((t % 60) \div 30) * 30)

\* parse_time: None for None/"" and for a string fromisoformat rejects
parse_time(time_str) ==
    IF time_str = NONE THEN NONE
    ELSE IF time_str = BAD THEN NONE
    ELSE time_str

\* a variant that reads the scheduled time before the actual one
OrElse_ScheduledFirst(x, y) == IF y # NONE THEN y ELSE x

\* x or y on time strings: x unless it is None or ""
OrElse(x, y) == IF x # NONE THEN x ELSE y

\* get_segment_times: <<dep, arr>>
get_segment_times(segment) ==
    << parse_time(OrElse(segment.from.actual, segment.from.scheduled)),
       parse_time(OrElse(segment.to.actual, segment.to.scheduled)) >>

\* a variant that scales to the canvas edge instead of the right margin
time_to_x_NoRightMargin(t, start_time, end) ==
    LET total_seconds == (end - start_time) * 60
        elapsed_seconds == (t - start_time) * 60
    IN  TruncDiv(LEFT_MARGIN * total_seconds
                   + elapsed_seconds * (WIDTH - LEFT_MARGIN),
                 total_seconds)

\* time_to_x: int(LEFT_MARGIN + ratio * (WIDTH - LEFT_MARGIN - RIGHT_MARGIN)).
\* The quotient is taken exactly; on whole seconds the double-precision
\* result of the source truncates to the same pixel for every t within
\* two hours either side of the window.
time_to_x(t, start_time, end) ==
    LET total_seconds == (end - start_time) * 60
        elapsed_seconds == (t - start_time) * 60
    IN  TruncDiv(LEFT_MARGIN * total_seconds
                   + elapsed_seconds * (WIDTH - LEFT_MARGIN - RIGHT_MARGIN),
                 total_seconds)

\* get_text_width: every glyph is fw wide (FONT_DATA[char]["width"], or
\* CHAR_WIDTH for a character the font lacks)
get_text_width(text, fw, scale) ==
    IF Len(text) = 0 THEN 0
    ELSE Len(text) * fw * scale + (Len(text) - 1) * CHAR_SPACING * scale

Digit(d) ==
    CASE d = 0 -> "0" [] d = 1 -> "1" [] d = 2 -> "2" [] d = 3 -> "3"
      [] d = 4 -> "4" [] d = 5 -> "5" [] d = 6 -> "6" [] d = 7 -> "7"
      [] d = 8 -> "8" [] d = 9 -> "9"

\* format_time_label: strftime("%-I:%M"), 12-hour clock, hour not padded
format_time_label(t) ==
    LET h24 == (t \div 60) % 24
        h12 == IF h24 % 12 = 0 THEN 12 ELSE h24 % 12
        m == t % 60
        hh == IF h12 >= 10 THEN Digit(h12 \div 10) \o Digit(h12 % 10)
              ELSE Digit(h12)
    IN  hh \o ":" \o Digit(m \div 10) \o Digit(m % 10)

\* ------------------------------------------------- filter_trains_in_window
\* a variant that compares with the start of the window instead of now
InWindow_FromStart(first_dep, start_time, end, now) ==
    first_dep >= start_time /\ first_dep <= end

\* the test of line 271
InWindow(first_dep, start_time, end, now) ==
    first_dep >= now /\ first_dep <= end

\* the copies {**seg, "_dep": dep, "_arr": arr} of the segments whose
\* departure and arrival both parse
ParsedSegments(segments) ==
    LET P[k \in 0..Len(segments)] ==
          IF k = 0 THEN << >>
          ELSE LET seg == segments[k]
                   dep == get_segment_times(seg)[1]
                   arr == get_segment_times(seg)[2]
               IN  IF dep # NONE /\ arr # NONE
                   THEN Append(P[k - 1],
                               [from |-> seg.from, to |-> seg.to,
                                _dep |-> dep, _arr |-> arr])
                   ELSE P[k - 1]
    IN  P[Len(segments)]

\* whether the loop body of lines 262-287 appends a copy of train
Kept(train, start_time, end, now) ==
    /\ Len(train.segments) > 0
    /\ get_segment_times(train.segments[1])[1] # NONE
    /\ InWindow(get_segment_times(train.segments[1])[1], start_time, end, now)
    /\ Len(ParsedSegments(train.segments)) > 0

\* {**train, "_segments": parsed_segments, "_first_dep": first_dep}
VisibleCopy(train) ==
    [train_num |-> train.train_num, route_name |-> train.route_name,
     segments |-> train.segments,
     _segments |-> ParsedSegments(train.segments),
     _first_dep |-> get_segment_times(train.segments[1])[1]]

\* a variant that is not stable: equal keys come out in reverse order
SortedIndex_Unstable(filtered, k) ==
    Cardinality({j \in 1..Len(filtered) :
                    \/ filtered[j]._first_dep < filtered[k]._first_dep
                    \/ /\ filtered[j]._first_dep = filtered[k]._first_dep
                       /\ j >= k})

\* where list.sort(key=...) puts element k of filtered: after the elements
\* with a smaller key and after the earlier elements with the same key
SortedIndex(filtered, k) ==
    Cardinality({j \in 1..Len(filtered) :
                    \/ filtered[j]._first_dep < filtered[k]._first_dep
                    \/ /\ filtered[j]._first_dep = filtered[k]._first_dep
                       /\ j <= k})

\* the elements of filtered, each at the place index gives it
Permuted(filtered, index) ==
    [p \in 1..Len(filtered) |->
        filtered[CHOOSE k \in 1..Len(filtered) : index[k] = p]]

\* filtered.sort(key=lambda t: t["_first_dep"]): a stable sort.  (The
\* singleton sets give the list and the index a name each, so that they are
\* computed once.)
SortByFirstDep(filtered) ==
    CHOOSE sorted \in
        UNION { { Permuted(f, index) :
                    index \in {[k \in 1..Len(f) |-> SortedIndex(f, k)]} } :
                f \in {filtered} } : TRUE

filter_trains_in_window(trs, start_time, end, now) ==
    LET keep(train) == Kept(train, start_time, end, now)
        kept == SelectSeq(trs, keep)
    IN  SortByFirstDep([k \in 1..Len(kept) |-> VisibleCopy(kept[k])])

\* ------------------------------------------------------------ draw_text
\* the x draw_text starts at for an anchor (lines 175-178)
TextLeft(x, text_width, anchor) ==
    IF anchor = "center" THEN x - FloorDiv(text_width, 2)
    ELSE IF anchor = "right" THEN x - text_width
    ELSE x

\* a drawing call and the extent [x1, x2) x [y1, y2) it is asked to cover
DrawOp(op, what, x1, y1, x2, y2) ==
    [op |-> op, what |-> what, x1 |-> x1, y1 |-> y1, x2 |-> x2, y2 |-> y2]

\* draw_text(img, x, y, text, color, anchor, scale)
draw_text(what, x, y, text, fw, anchor, scale) ==
    LET w == get_text_width(text, fw, scale)
        left == TextLeft(x, w, anchor)
    IN  DrawOp("draw_text", what, left, y, left + w, y + CHAR_HEIGHT * scale)

\* a variant of the drawing calls without their bounds tests
PixelExtent_Unclipped(op) ==
    [x1 |-> op.x1, y1 |-> op.y1, x2 |-> op.x2, y2 |-> op.y2]

\* The pixels [x1, x2) x [y1, y2) a drawing call may pass to img.putpixel.
\* draw_char tests each pixel (line 165), draw_rect and draw_checkerboard clip
\* both ranges (lines 201-202, 208-209), draw_hline and draw_vline test one
\* coordinate and clip the range of the other (lines 221-222, 228-229); the
\* grid line loop of lines 356-358 calls putpixel with no test at all.
PixelExtent(op) ==
    IF op.op = "putpixel"
    THEN [x1 |-> op.x1, y1 |-> op.y1, x2 |-> op.x2, y2 |-> op.y2]
    ELSE [x1 |-> Max(0, op.x1), y1 |-> Max(0, op.y1),
          x2 |-> Min(WIDTH, op.x2), y2 |-> Min(HEIGHT, op.y2)]

\* --------------------------------------------------------------- row layout
available_height == HEIGHT - TOP_MARGIN - BOTTOM_MARGIN
\* a variant that rounds the row height up
row_height_RoundedUp(n) == (HEIGHT - TOP_MARGIN - BOTTOM_MARGIN + n - 1) \div n
row_height(n) == available_height \div n
bar_height == CHAR_HEIGHT + 2 + CHAR_HEIGHT * FONT_SCALE + 4
chart_top == TOP_MARGIN
chart_bottom == HEIGHT - BOTTOM_MARGIN

\* a variant that takes the top of the row for its centre
y_center_RowTop(i, n) == chart_top + i * row_height(n)

\* y_center of row i (rows are numbered from 0) among n rows
y_center(i, n) == chart_top + i * row_height(n) + row_height(n) \div 2
bar_top(i, n) == y_center(i, n) - bar_height \div 2
bar_bottom(i, n) == y_center(i, n) + bar_height \div 2

\* a variant without the extension to the canvas edge
BarX2_Clipped(arr, start_time, end) ==
    time_to_x(Min(arr, end), start_time, end)

\* x2 of a kept segment (line 403)
BarX2(arr, start_time, end) ==
    IF arr >= end THEN WIDTH ELSE time_to_x(Min(arr, end), start_time, end)

\* segment_positions (lines 389-406): the segments not skipped at line 398
SegmentPositions(segments, start_time, end) ==
    LET P[k \in 0..Len(segments)] ==
          IF k = 0 THEN << >>
          ELSE LET seg == segments[k]
                   visible_dep == Max(seg._dep, start_time)
                   visible_arr == Min(seg._arr, end)
               IN  IF visible_arr <= start_time \/ visible_dep >= end
                   THEN P[k - 1]
                   ELSE Append(P[k - 1],
                          [x1 |-> time_to_x(visible_dep, start_time, end),
                           x2 |-> BarX2(seg._arr, start_time, end),
                           dep |-> seg._dep, arr |-> seg._arr,
                           seg_idx |-> k - 1, seg |-> seg])
    IN  P[Len(segments)]

\* the draw_rect calls of line 411, one per kept segment
BarOps(positions, i, n) ==
    [k \in 1..Len(positions) |->
        DrawOp("draw_rect", "bar", positions[k].x1, bar_top(i, n),
               positions[k].x2, bar_bottom(i, n))]

\* a variant that does not clip the start of the buffer to the window
BeforeBufferOps_Unclipped(positions, i, n, before, start_time, end) ==
    IF Len(positions) > 0 /\ before > 0
    THEN LET block_x1 == positions[1].x1
             buffer_start_time == positions[1].dep - before
             buffer_start_x == time_to_x(buffer_start_time, start_time, end)
         IN  IF buffer_start_x < block_x1
             THEN << DrawOp("draw_checkerboard", "buffer_before",
                            buffer_start_x, bar_top(i, n),
                            block_x1, bar_bottom(i, n)) >>
             ELSE << >>
    ELSE << >>

\* the checkerboard before the block (lines 422-427)
BeforeBufferOps(positions, i, n, before, start_time, end) ==
    IF Len(positions) > 0 /\ before > 0
    THEN LET block_x1 == positions[1].x1
             buffer_start_time == positions[1].dep - before
             buffer_start_x == time_to_x(Max(buffer_start_time, start_time),
                                         start_time, end)
         IN  IF buffer_start_x < block_x1
             THEN << DrawOp("draw_checkerboard", "buffer_before",
                            buffer_start_x, bar_top(i, n),
                            block_x1, bar_bottom(i, n)) >>
             ELSE << >>
    ELSE << >>

\* the checkerboard after the block (lines 429-437)
AfterBufferOps(positions, i, n, after, start_time, end) ==
    IF Len(positions) > 0 /\ after > 0
    THEN LET block_x2 == positions[Len(positions)].x2
             buffer_end_time == positions[Len(positions)].arr + after
             buffer_end_x == time_to_x(Min(buffer_end_time, end),
                                       start_time, end)
         IN  IF block_x2 >= WIDTH THEN << >>
             ELSE IF buffer_end_x > block_x2
             THEN << DrawOp("draw_checkerboard", "buffer_after",
                            block_x2, bar_top(i, n),
                            Min(buffer_end_x, WIDTH), bar_bottom(i, n)) >>
             ELSE << >>
    ELSE << >>

\* the candidates a kept segment adds to time_labels (lines 445-467)
LabelsOf(positions, k, fw, end) ==
    LET p == positions[k]
        is_first == k = 1
        is_last == k = Len(positions)
        dep_label == format_time_label(p.dep)
        arr_label == format_time_label(p.arr)
        dep_width == get_text_width(dep_label, fw, 1)
        arr_width == get_text_width(arr_label, fw, 1)
        gap_center == IF is_last THEN 0
                      ELSE FloorDiv(p.x2 + positions[k + 1].x1, 2)
    IN  (IF is_first
         THEN << [left |-> p.x1, right |-> p.x1 + dep_width,
                  label |-> dep_label] >>
         ELSE << >>)
        \o (IF ~is_last
            THEN << [left |-> gap_center - FloorDiv(arr_width, 2),
                     right |-> gap_center + FloorDiv(arr_width, 2),
                     label |-> arr_label] >>
            ELSE << >>)
        \o (IF is_last /\ p.arr <= end
            THEN << [left |-> p.x2 - arr_width, right |-> p.x2,
                     label |-> arr_label] >>
            ELSE << >>)

\* time_labels (lines 443-467), in the order the loop appends them
TimeLabels(positions, fw, end) ==
    LET L[k \in 0..Len(positions)] ==
          IF k = 0 THEN << >> ELSE L[k - 1] \o LabelsOf(positions, k, fw, end)
    IN  L[Len(positions)]

min_gap == 4

\* variants of the test: one without the gap, one that accepts the gap itself
LabelFits_NoGap(left, last_right) == left > last_right
LabelFits_AtGap(left, last_right) == left >= last_right + 4

\* the test of line 473
LabelFits(left, last_right) == left > last_right + min_gap

\* the two calls that draw a kept time label (lines 474-482)
TimeLabelOps(labels, k, i, n, fw) ==
    LET l == labels[k]
        time_y == y_center(i, n) - bar_height \div 2 - CHAR_HEIGHT - 3
        bg_pad == 1
    IN  << DrawOp("draw_rect", "time_label_bg", l.left - bg_pad,
                  time_y - bg_pad, l.right + bg_pad,
                  time_y + CHAR_HEIGHT + bg_pad),
           IF l.left = labels[1].left /\ labels[1].label = l.label
           THEN draw_text("time_label", l.left, time_y, l.label, fw, "left", 1)
           ELSE draw_text("time_label", FloorDiv(l.left + l.right, 2), time_y,
                          l.label, fw, "center", 1) >>

\* the station codes of one kept segment (lines 493-523)
StationOpsOf(positions, k, i, n, fw) ==
    LET p == positions[k]
        is_first == k = 1
        is_last == k = Len(positions)
        padding == 4
        station_y == bar_top(i, n) + 2
        min_width_for_station == get_text_width("XXX", fw, 1) + padding * 2
        wide == p.x2 - p.x1 > min_width_for_station
        gap_center == IF is_last THEN 0
                      ELSE FloorDiv(p.x2 + positions[k + 1].x1, 2)
        code_width == get_text_width(p.seg.to.station_code, fw, 1)
        bg_padding == 2
    IN  (IF wide /\ is_first
         THEN << draw_text("station_code", p.x1 + padding, station_y,
                           p.seg.from.station_code, fw, "left", 1) >>
         ELSE << >>)
        \o (IF wide /\ is_last
            THEN << draw_text("station_code", p.x2 - padding, station_y,
                              p.seg.to.station_code, fw, "right", 1) >>
            ELSE << >>)
        \o (IF ~is_last
            THEN << DrawOp("draw_rect", "station_code_bg",
                           gap_center - FloorDiv(code_width, 2) - bg_padding,
                           station_y - 1,
                           gap_center + FloorDiv(code_width, 2) + bg_padding,
                           station_y + CHAR_HEIGHT + 1),
                    draw_text("station_code", gap_center, station_y,
                              p.seg.to.station_code, fw, "center", 1) >>
            ELSE << >>)

StationOps(positions, i, n, fw) ==
    LET L[k \in 0..Len(positions)] ==
          IF k = 0 THEN << >>
          ELSE L[k - 1] \o StationOpsOf(positions, k, i, n, fw)
    IN  L[Len(positions)]

\* the text of the train label (lines 527-531)
TrainLabel(train) ==
    LET route0 == IF train.route_name = "" THEN "Train" ELSE train.route_name
        route == IF route0 = "Northeast Regional" THEN "NE Regional"
                 ELSE route0
    IN  route \o " " \o train.train_num

\* the anchor chosen for the train label and the x given to draw_text
\* (lines 533-545)
TrainLabelAnchor(block_x1, block_x2, label_width) ==
    LET center_x == FloorDiv(block_x1 + block_x2, 2)
        train_padding == 8
    IN  IF center_x + FloorDiv(label_width, 2) > WIDTH
        THEN [anchor |-> "left", x |-> block_x1 + train_padding]
        ELSE IF center_x - FloorDiv(label_width, 2) < 0
        THEN [anchor |-> "right", x |-> block_x2 - train_padding]
        ELSE [anchor |-> "center", x |-> center_x]

\* the draw_text call for the train label, when the row has a block
TrainNameOps(train, positions, i, n, fw) ==
    IF Len(positions) > 0
    THEN LET label == TrainLabel(train)
             label_width == get_text_width(label, fw, FONT_SCALE)
             a == TrainLabelAnchor(positions[1].x1,
                                   positions[Len(positions)].x2, label_width)
             train_name_y == bar_bottom(i, n) - CHAR_HEIGHT * FONT_SCALE - 2
         IN  << draw_text("train_label", a.x, train_name_y, label, fw,
                          a.anchor, FONT_SCALE) >>
    ELSE << >>

\* ------------------------------------------------------- the frame's header
\* "%b %-d, %Y %-I:%M%p" in lower case; the date is not part of the model
TimestampStr(t) ==
    "nov 3, 2026 " \o format_time_label(t)
        \o (IF (t \div 60) % 24 < 12 THEN "am" ELSE "pm")

\* the generation timestamp (lines 338-345)
TimestampOps(t, fw) ==
    LET timestamp_str == TimestampStr(t)
        timestamp_width == get_text_width(timestamp_str, fw, 1)
        timestamp_x == WIDTH - 4
        timestamp_y == 4
    IN  << DrawOp("draw_rect", "timestamp_bg",
                  timestamp_x - timestamp_width - 2, timestamp_y - 1,
                  timestamp_x + 2, timestamp_y + CHAR_HEIGHT + 1),
           draw_text("timestamp", timestamp_x, timestamp_y, timestamp_str,
                     fw, "right", 1) >>

\* the bottom axis line (line 348)
AxisOps == << DrawOp("draw_hline", "axis", 0, chart_bottom, WIDTH,
                     chart_bottom + 1) >>

\* the grid line and tick label of every 30-minute marker (lines 351-364)
MarkerOps(start_time, end, fw) ==
    LET count == (end - start_time) \div 30 + 1
        M[k \in 0..count] ==
          IF k = 0 THEN << >>
          ELSE LET marker_time == start_time + (k - 1) * 30
                   x == time_to_x(marker_time, start_time, end)
               IN  M[k - 1]
                   \o << DrawOp("putpixel", "grid", x, chart_top, x + 1,
                                chart_bottom),
                         draw_text("tick_label", x, chart_bottom + 8,
                                   format_time_label(marker_time), fw,
                                   "center", FONT_SCALE) >>
    IN  M[count]

\* the dashed "now" line (lines 367-368)
NowOps(t, start_time, end) ==
    LET now_x == time_to_x(t, start_time, end)
    IN  << DrawOp("draw_vline", "now_marker", now_x, chart_top - 5,
                  now_x + 1, chart_bottom) >>

\* a variant whose early return comes after the axis is drawn
NoTrainsOps_AfterAxis(fw) ==
    AxisOps
      \o << draw_text("message", WIDTH \div 2,
                      HEIGHT \div 2 - (CHAR_HEIGHT * FONT_SCALE) \div 2,
                      "No trains in next 3 hours", fw, "center", FONT_SCALE) >>

\* the message of an empty frame (lines 322-323)
NoTrainsOps(fw) ==
    << draw_text("message", WIDTH \div 2,
                 HEIGHT \div 2 - (CHAR_HEIGHT * FONT_SCALE) \div 2,
                 "No trains in next 3 hours", fw, "center", FONT_SCALE) >>

\* ------------------------------------------------------------------ inputs
\* a stop with only a scheduled time, and one that also has an actual time
Sched(code, t) == [station_code |-> code, scheduled |-> t, actual |-> NONE]
Actual(code, sched, t) == [station_code |-> code, scheduled |-> sched, actual |-> t]
Seg(f, t) == [from |-> f, to |-> t]
Train(num, route, segs) ==
    [train_num |-> num, route_name |-> route, segments |-> segs]

\* The trains an input list is drawn from (9:00 is minute 540).
Catalogue ==
    { \* leaves early in the 9:00 window
      Train("2150", "Acela",
            << Seg(Sched("NYP", 545), Sched("NWK", 560)) >>),
      \* delayed: scheduled 9:05, actual 9:10; a bar narrower than its labels
      Train("123", "Northeast Regional",
            << Seg(Actual("NYP", 545, 550), Sched("NWK", 555)) >>),
      \* two segments with a gap
      Train("641", "Keystone",
            << Seg(Sched("NYP", 560), Sched("NWK", 600)),
               Seg(Sched("NWK", 605), Sched("PHL", 640)) >>),
      \* same first departure as 641
      Train("7", "",
            << Seg(Sched("NYP", 560), Actual("NWK", 575, 580)) >>),
      \* labels close together
      Train("85", "Northeast Regional",
            << Seg(Sched("NYP", 600), Sched("NWK", 604)),
               Seg(Sched("NWK", 605), Sched("PHL", 640)) >>),
      \* labels 3, 4 or 5 pixels apart, by window and font
      Train("2153", "Acela",
            << Seg(Sched("NYP", 610), Sched("NWK", 631)) >>),
      Train("95", "Northeast Regional",
            << Seg(Sched("NYP", 595), Sched("NWK", 609)) >>),
      \* runs past the end of the 9:00 and 9:30 windows
      Train("2155", "Acela",
            << Seg(Sched("NYP", 700), Sched("PHL", 760)) >>),
      \* arrives exactly at the end of the 9:00 window
      Train("43", "Pennsylvanian",
            << Seg(Sched("NYP", 715), Sched("NWK", 720)) >>),
      \* leaves exactly at the end of the 9:00 window
      Train("91", "Silver Star",
            << Seg(Sched("NYP", 720), Sched("PHL", 760)) >>),
      \* leaves after the end of both windows
      Train("19", "Crescent",
            << Seg(Sched("NYP", 760), Sched("PHL", 780)) >>),
      \* no segments
      Train("66", "Northeast Regional", << >>),
      \* an actual departure that does not parse hides the scheduled one
      Train("171", "Northeast Regional",
            << Seg(Actual("NYP", 600, BAD), Sched("NWK", 640)) >>),
      \* the only segment has no arrival time
      Train("653", "Keystone",
            << Seg(Sched("NYP", 600), Sched("NWK", NONE)) >>),
      \* the first segment's arrival does not parse, the second segment is fine
      Train("51", "Cardinal",
            << Seg(Sched("NYP", 600), Actual("NWK", 620, BAD)),
               Seg(Sched("NWK", 650), Sched("PHL", 700)) >>) }

NowSet == {540, 550, 575}
\* buffer_before, buffer_after and the font's glyph width.  No drawing call
\* reads both a buffer and the font, so each buffer pair comes with one font.
RenderOptions ==
    { [before |-> 0, after |-> 0, width |-> CHAR_WIDTH],
      [before |-> 20, after |-> 0, width |-> 5],
      [before |-> 0, after |-> 20, width |-> CHAR_WIDTH],
      [before |-> 20, after |-> 20, width |-> 5] }

TrainLists == UNION { [1..n -> Catalogue] : n \in 0..MaxTrains }

\* ------------------------------------------------------------------- state
VARIABLES
    trains,            \* create_image's trains argument
    now,               \* its now argument
    buffer_before,     \* its buffer_before argument (minutes)
    buffer_after,      \* its buffer_after argument (minutes)
    font_width,        \* the advance width of the font's glyphs
    pc,                \* where create_image is
    visible_trains,    \* the list filter_trains_in_window returned
    drawn,             \* the drawing calls made on img so far, in order
    i,                 \* the row being drawn (from 0)
    segment_positions, \* of row i
    time_labels,       \* of row i
    label_idx,         \* the next candidate of time_labels (from 1)
    last_right,        \* of the loop at line 472
    kept_labels        \* the candidates of row i drawn so far

\* create_image's variables
render_vars == << trains, now, buffer_before, buffer_after, font_width, pc,
                  visible_trains, drawn, i, segment_positions, time_labels,
                  label_idx, last_right, kept_labels >>

\* the state of server.py
VARIABLES
    train_cache,       \* route key -> (timestamp, data)
    registered_routes, \* route key -> stations, in the order of insertion
    cache_lock,        \* the thread that holds cache_lock, or "free"
    clock,             \* time.time(), in seconds
    handler,           \* the server thread, which handles one request at a time
    refresher          \* the background_refresh thread

server_vars == << train_cache, registered_routes, cache_lock, clock, handler,
                  refresher >>

vars == << trains, now, buffer_before, buffer_after, font_width, pc,
           visible_trains, drawn, i, segment_positions, time_labels,
           label_idx, last_right, kept_labels, server_vars >>

inputs == << trains, now, buffer_before, buffer_after, font_width >>

\* start_time and end of create_image (lines 316-317)
WinStart == round_down_to_30min(now)
WinEnd == WinStart + HOURS_TO_SHOW * 60

\* ------------------------------------------------------ server.py's state
REFRESH_INTERVAL == 300

\* dict.get's None, and the locals of a thread before they are assigned
NoEntry == [none |-> TRUE]
NoData == [none |-> TRUE]

\* server.py as loaded (lines 15-19), no request received and the background
\* thread at its first sleep (lines 38-39)
ServerInit ==
    /\ train_cache = << >>
    /\ registered_routes = << >>
    /\ cache_lock = "free"
    /\ clock = 0
    /\ handler = [pc |-> "idle", stations |-> << >>, cache_key |-> "",
                  cached |-> NoEntry, data |-> NoData, response |-> "none"]
    /\ refresher = [pc |-> "sleep", since |-> 0, routes |-> << >>,
                    cache_key |-> "", stations |-> << >>, data |-> NoData]

Init ==
    /\ trains \in TrainLists
    /\ now \in NowSet
    /\ \E o \in RenderOptions :
          /\ buffer_before = o.before
          /\ buffer_after = o.after
          /\ font_width = o.width
    /\ pc = "filter"
    /\ visible_trains = << >>
    /\ drawn = << >>
    /\ i = 0
    /\ segment_positions = << >>
    /\ time_labels = << >>
    /\ label_idx = 1
    /\ last_right = -1000
    /\ kept_labels = << >>
    /\ ServerInit

\* a variant that writes the derived fields into the caller's records
Filter_InPlace ==
    /\ pc = "filter"
    /\ visible_trains' = filter_trains_in_window(trains, WinStart, WinEnd, now)
    /\ trains' = [k \in 1..Len(trains) |->
                    IF Kept(trains[k], WinStart, WinEnd, now)
                    THEN VisibleCopy(trains[k]) ELSE trains[k]]
    /\ pc' = "filtered"
    /\ UNCHANGED server_vars
    /\ UNCHANGED << now, buffer_before, buffer_after, font_width, drawn, i,
                    segment_positions, time_labels, label_idx, last_right,
                    kept_labels >>

\* line 319
Filter ==
    /\ pc = "filter"
    /\ visible_trains' = filter_trains_in_window(trains, WinStart, WinEnd, now)
    /\ pc' = "filtered"
    /\ UNCHANGED server_vars
    /\ UNCHANGED << inputs, drawn, i, segment_positions, time_labels,
                    label_idx, last_right, kept_labels >>

\* lines 321-324: the empty frame
NoTrains ==
    /\ pc = "filtered"
    /\ Len(visible_trains) = 0
    /\ drawn' = drawn \o NoTrainsOps(font_width)
    /\ pc' = "done"
    /\ UNCHANGED server_vars
    /\ UNCHANGED << inputs, visible_trains, i, segment_positions, time_labels,
                    label_idx, last_right, kept_labels >>

\* lines 326-368: timestamp, axis, time markers, now line
DrawHeader ==
    /\ pc = "filtered"
    /\ Len(visible_trains) > 0
    /\ drawn' = drawn \o TimestampOps(now, font_width) \o AxisOps
                  \o MarkerOps(WinStart, WinEnd, font_width)
                  \o NowOps(now, WinStart, WinEnd)
    /\ i' = 0
    /\ pc' = "row"
    /\ UNCHANGED server_vars
    /\ UNCHANGED << inputs, visible_trains, segment_positions, time_labels,
                    label_idx, last_right, kept_labels >>

\* lines 371-471: the bars and buffers of row i, and its label candidates
DrawBars ==
    /\ pc = "row"
    /\ LET n == Len(visible_trains)
           positions == SegmentPositions(visible_trains[i + 1]._segments,
                                         WinStart, WinEnd)
       IN  /\ segment_positions' = positions
           /\ drawn' = drawn \o BarOps(positions, i, n)
                         \o BeforeBufferOps(positions, i, n, buffer_before,
                                            WinStart, WinEnd)
                         \o AfterBufferOps(positions, i, n, buffer_after,
                                           WinStart, WinEnd)
           /\ time_labels' = TimeLabels(positions, font_width, WinEnd)
    /\ label_idx' = 1
    /\ last_right' = -1000
    /\ kept_labels' = << >>
    /\ pc' = "labels"
    /\ UNCHANGED server_vars
    /\ UNCHANGED << inputs, visible_trains, i >>

\* lines 472-483, a candidate that passes the test of line 473
DrawTimeLabel ==
    /\ pc = "labels"
    /\ label_idx <= Len(time_labels)
    /\ LabelFits(time_labels[label_idx].left, last_right)
    /\ drawn' = drawn \o TimeLabelOps(time_labels, label_idx, i,
                                      Len(visible_trains), font_width)
    /\ last_right' = time_labels[label_idx].right
    /\ kept_labels' = Append(kept_labels, time_labels[label_idx])
    /\ label_idx' = label_idx + 1
    /\ UNCHANGED server_vars
    /\ UNCHANGED << inputs, pc, visible_trains, i, segment_positions,
                    time_labels >>

\* lines 472-473, a candidate that fails the test
SkipTimeLabel ==
    /\ pc = "labels"
    /\ label_idx <= Len(time_labels)
    /\ ~LabelFits(time_labels[label_idx].left, last_right)
    /\ label_idx' = label_idx + 1
    /\ UNCHANGED server_vars
    /\ UNCHANGED << inputs, pc, visible_trains, drawn, i, segment_positions,
                    time_labels, last_right, kept_labels >>

\* lines 485-545: station codes and train label of row i; then the next row
DrawNames ==
    /\ pc = "labels"
    /\ label_idx > Len(time_labels)
    /\ drawn' = drawn
                  \o StationOps(segment_positions, i, Len(visible_trains),
                                font_width)
                  \o TrainNameOps(visible_trains[i + 1], segment_positions, i,
                                  Len(visible_trains), font_width)
    /\ i' = i + 1
    /\ pc' = IF i + 1 < Len(visible_trains) THEN "row" ELSE "done"
    /\ UNCHANGED server_vars
    /\ UNCHANGED << inputs, visible_trains, segment_positions, time_labels,
                    label_idx, last_right, kept_labels >>

Next ==
    \/ Filter
    \/ NoTrains
    \/ DrawHeader
    \/ DrawBars
    \/ DrawTimeLabel
    \/ SkipTimeLabel
    \/ DrawNames

Spec == Init /\ [][Next]_vars

\* ------------------------------------------------- frames with many rows
\* most rows of a frame, but for the two frames whose rows are 1 and 0 high
MaxRows == 13
RowCounts == (0..MaxRows) \cup {available_height, available_height + 1}

\* the train every row of such a frame shows
RowTrain ==
    Train("85", "Northeast Regional",
          << Seg(Sched("NYP", 600), Sched("NWK", 604)),
             Seg(Sched("NWK", 605), Sched("PHL", 640)) >>)

InitRows ==
    /\ trains \in { [k \in 1..n |-> RowTrain] : n \in RowCounts }
    /\ now \in NowSet
    /\ buffer_before = 0
    /\ buffer_after = 0
    /\ font_width = CHAR_WIDTH
    /\ pc = "filter"
    /\ visible_trains = << >>
    /\ drawn = << >>
    /\ i = 0
    /\ segment_positions = << >>
    /\ time_labels = << >>
    /\ label_idx = 1
    /\ last_right = -1000
    /\ kept_labels = << >>
    /\ ServerInit

SpecRows == InitRows /\ [][Next]_vars

\* ------------------------------------------------- frames with buffer zones
\* the rows of such a frame
MaxBufferTrains == 1

\* trains that leave at or near the start of a window, arrive at or near its
\* end, run past it, or have a block that is not their first segment
BufferCatalogue ==
    { t \in Catalogue :
        t.train_num \in {"2150", "641", "85", "51", "43", "2155", "91"} }
    \cup { Train("2151", "Acela",
                 << Seg(Sched("NYP", 540), Sched("NWK", 560)) >>),
           Train("141", "Keystone",
                 << Seg(Sched("NYP", 700), Sched("NWK", 719)) >>) }

\* buffer_before and buffer_after are any integers (server.py lines 104-105)
BufferValues == {-15, 0, 1, 20, 200}

InitBuffers ==
    /\ trains \in UNION { [1..n -> BufferCatalogue] : n \in 0..MaxBufferTrains }
    /\ now \in NowSet
    /\ buffer_before \in BufferValues
    /\ buffer_after \in BufferValues
    /\ font_width = CHAR_WIDTH
    /\ pc = "filter"
    /\ visible_trains = << >>
    /\ drawn = << >>
    /\ i = 0
    /\ segment_positions = << >>
    /\ time_labels = << >>
    /\ label_idx = 1
    /\ last_right = -1000
    /\ kept_labels = << >>
    /\ ServerInit

SpecBuffers == InitBuffers /\ [][Next]_vars

\* ---------------------------------------------------------------- server.py
\* the ticks of the clock a run of the server takes
MaxTicks == 1

\* the station lists of the requests; "NYP_NWK" is a path segment like any
\* other to do_GET (line 93)
Routes == { << "NYP", "PHL" >>, << "NYP", "NWK", "PHL" >>,
            << "NYP_NWK", "PHL" >> }

\* "_".join(stations) (line 60)
CacheKey(stations) ==
    LET J[k \in 1..Len(stations)] ==
          IF k = 1 THEN stations[1] ELSE J[k - 1] \o "_" \o stations[k]
    IN  J[Len(stations)]

\* the lists find_connecting_trains may return
FetchResults == { << >>, << RowTrain >> }

\* train_cache.get(cache_key) and train_cache[cache_key] = entry
CacheGet(cache, key) ==
    IF \E k \in 1..Len(cache) : cache[k].cache_key = key
    THEN LET k == CHOOSE k \in 1..Len(cache) : cache[k].cache_key = key
         IN  [time |-> cache[k].time, data |-> cache[k].data]
    ELSE NoEntry
CachePut(cache, key, entry) ==
    LET item == [cache_key |-> key, time |-> entry.time, data |-> entry.data]
    IN  IF \E k \in 1..Len(cache) : cache[k].cache_key = key
        THEN [k \in 1..Len(cache) |->
                 IF cache[k].cache_key = key THEN item ELSE cache[k]]
        ELSE Append(cache, item)

\* registered_routes[cache_key] = stations
RoutePut(routes, key, stations) ==
    LET item == [cache_key |-> key, stations |-> stations]
    IN  IF \E k \in 1..Len(routes) : routes[k].cache_key = key
        THEN [k \in 1..Len(routes) |->
                 IF routes[k].cache_key = key THEN item ELSE routes[k]]
        ELSE Append(routes, item)

\* a variant that fetches again when the cached list is empty
MustFetch_WhenEmpty(cached) ==
    IF cached = NoEntry THEN TRUE ELSE cached.data.trains = << >>

\* the test of line 66: cached is None
MustFetch(cached) == cached = NoEntry

\* the handler thread when a request has ended
Idle(response) ==
    [pc |-> "idle", stations |-> << >>, cache_key |-> "", cached |-> NoEntry,
     data |-> NoData, response |-> response]

\* do_GET up to the call of get_trains (lines 78-111); line 60
Request ==
    /\ handler.pc = "idle"
    /\ \E stations \in Routes :
          handler' = [pc |-> "get_trains", stations |-> stations,
                      cache_key |-> CacheKey(stations), cached |-> NoEntry,
                      data |-> NoData, response |-> "none"]
    /\ UNCHANGED render_vars
    /\ UNCHANGED << train_cache, registered_routes, cache_lock, clock,
                    refresher >>

\* line 62: with cache_lock
GetTrainsLock ==
    /\ handler.pc = "get_trains"
    /\ cache_lock = "free"
    /\ cache_lock' = "handler"
    /\ handler' = [handler EXCEPT !.pc = "locked"]
    /\ UNCHANGED render_vars
    /\ UNCHANGED << train_cache, registered_routes, clock, refresher >>

\* lines 63-64, and the release of the lock
GetTrainsRead ==
    /\ handler.pc = "locked"
    /\ handler' = [handler EXCEPT
                      !.cached = CacheGet(train_cache, handler.cache_key),
                      !.pc = "check"]
    /\ registered_routes' = RoutePut(registered_routes, handler.cache_key,
                                     handler.stations)
    /\ cache_lock' = "free"
    /\ UNCHANGED render_vars
    /\ UNCHANGED << train_cache, clock, refresher >>

\* lines 66-70: return cached_data
CacheHit ==
    /\ handler.pc = "check"
    /\ ~MustFetch(handler.cached)
    /\ handler' = [handler EXCEPT !.data = handler.cached.data,
                                  !.pc = "respond"]
    /\ UNCHANGED render_vars
    /\ UNCHANGED << train_cache, registered_routes, cache_lock, clock,
                    refresher >>

\* lines 72-74 and 25-26: the cold start calls find_connecting_trains
ColdStart ==
    /\ handler.pc = "check"
    /\ MustFetch(handler.cached)
    /\ handler' = [handler EXCEPT !.pc = "fetching"]
    /\ UNCHANGED render_vars
    /\ UNCHANGED << train_cache, registered_routes, cache_lock, clock,
                    refresher >>

\* lines 26-30: find_connecting_trains returns
FetchDone ==
    /\ handler.pc = "fetching"
    /\ \E fetched \in FetchResults :
          handler' = [handler EXCEPT
                         !.data = [stations |-> handler.stations,
                                   trains |-> fetched],
                         !.pc = "store_lock"]
    /\ UNCHANGED render_vars
    /\ UNCHANGED << train_cache, registered_routes, cache_lock, clock,
                    refresher >>

\* line 26: find_connecting_trains raises (httpx.get fails); nothing in
\* get_trains or do_GET catches it
FetchFailed ==
    /\ handler.pc = "fetching"
    /\ handler' = Idle("exception")
    /\ UNCHANGED render_vars
    /\ UNCHANGED << train_cache, registered_routes, cache_lock, clock,
                    refresher >>

\* line 31: with cache_lock
StoreLock ==
    /\ handler.pc = "store_lock"
    /\ cache_lock = "free"
    /\ cache_lock' = "handler"
    /\ handler' = [handler EXCEPT !.pc = "store"]
    /\ UNCHANGED render_vars
    /\ UNCHANGED << train_cache, registered_routes, clock, refresher >>

\* lines 32-33, and the release of the lock
Store ==
    /\ handler.pc = "store"
    /\ train_cache' = CachePut(train_cache, handler.cache_key,
                               [time |-> clock, data |-> handler.data])
    /\ cache_lock' = "free"
    /\ handler' = [handler EXCEPT !.pc = "respond"]
    /\ UNCHANGED render_vars
    /\ UNCHANGED << registered_routes, clock, refresher >>

\* lines 113-115: 404 for an empty list
NotFound ==
    /\ handler.pc = "respond"
    /\ handler.data.trains = << >>
    /\ handler' = Idle("404")
    /\ UNCHANGED render_vars
    /\ UNCHANGED << train_cache, registered_routes, cache_lock, clock,
                    refresher >>

\* lines 118-121 evaluate max_cache_age() first; line 51: with cache_lock
MaxCacheAgeLock ==
    /\ handler.pc = "respond"
    /\ handler.data.trains # << >>
    /\ cache_lock = "free"
    /\ cache_lock' = "handler"
    /\ handler' = [handler EXCEPT !.pc = "max_cache_age"]
    /\ UNCHANGED render_vars
    /\ UNCHANGED << train_cache, registered_routes, clock, refresher >>

\* lines 52-55, and the release of the lock
MaxCacheAge ==
    /\ handler.pc = "max_cache_age"
    /\ cache_lock' = "free"
    /\ handler' = [handler EXCEPT !.pc = "create_image"]
    /\ UNCHANGED render_vars
    /\ UNCHANGED << train_cache, registered_routes, clock, refresher >>

\* lines 119-121: create_image has no parameter cache_age_seconds (visualize.py
\* lines 306-307), so the call raises TypeError before its body runs
CreateImageRaises ==
    /\ handler.pc = "create_image"
    /\ handler' = Idle("TypeError")
    /\ UNCHANGED render_vars
    /\ UNCHANGED << train_cache, registered_routes, cache_lock, clock,
                    refresher >>

\* line 39: time.sleep(REFRESH_INTERVAL) returns
Wake ==
    /\ refresher.pc = "sleep"
    /\ clock >= refresher.since + REFRESH_INTERVAL
    /\ refresher' = [refresher EXCEPT !.pc = "snapshot_lock"]
    /\ UNCHANGED render_vars
    /\ UNCHANGED << train_cache, registered_routes, cache_lock, clock,
                    handler >>

\* line 40: with cache_lock
SnapshotLock ==
    /\ refresher.pc = "snapshot_lock"
    /\ cache_lock = "free"
    /\ cache_lock' = "refresher"
    /\ refresher' = [refresher EXCEPT !.pc = "snapshot"]
    /\ UNCHANGED render_vars
    /\ UNCHANGED << train_cache, registered_routes, clock, handler >>

\* line 41: routes = dict(registered_routes), and the release of the lock
Snapshot ==
    /\ refresher.pc = "snapshot"
    /\ refresher' = [refresher EXCEPT !.routes = registered_routes,
                                      !.pc = "loop"]
    /\ cache_lock' = "free"
    /\ UNCHANGED render_vars
    /\ UNCHANGED << train_cache, registered_routes, clock, handler >>

\* lines 42-44 and 25-26: the next route of the copy is refreshed
NextRoute ==
    /\ refresher.pc = "loop"
    /\ refresher.routes # << >>
    /\ refresher' = [refresher EXCEPT
                        !.cache_key = Head(refresher.routes).cache_key,
                        !.stations = Head(refresher.routes).stations,
                        !.routes = Tail(refresher.routes),
                        !.data = NoData,
                        !.pc = "fetching"]
    /\ UNCHANGED render_vars
    /\ UNCHANGED << train_cache, registered_routes, cache_lock, clock,
                    handler >>

\* lines 42 and 38-39: the copy is exhausted, the thread sleeps again
LoopDone ==
    /\ refresher.pc = "loop"
    /\ refresher.routes = << >>
    /\ refresher' = [pc |-> "sleep", since |-> clock, routes |-> << >>,
                     cache_key |-> "", stations |-> << >>, data |-> NoData]
    /\ UNCHANGED render_vars
    /\ UNCHANGED << train_cache, registered_routes, cache_lock, clock,
                    handler >>

\* lines 26-30: find_connecting_trains returns
RefreshDone ==
    /\ refresher.pc = "fetching"
    /\ \E fetched \in FetchResults :
          refresher' = [refresher EXCEPT
                           !.data = [stations |-> refresher.stations,
                                     trains |-> fetched],
                           !.pc = "store_lock"]
    /\ UNCHANGED render_vars
    /\ UNCHANGED << train_cache, registered_routes, cache_lock, clock,
                    handler >>

\* lines 45-46: find_connecting_trains raises and the loop goes on
RefreshFailed ==
    /\ refresher.pc = "fetching"
    /\ refresher' = [refresher EXCEPT !.pc = "loop"]
    /\ UNCHANGED render_vars
    /\ UNCHANGED << train_cache, registered_routes, cache_lock, clock,
                    handler >>

\* line 31: with cache_lock
RefreshStoreLock ==
    /\ refresher.pc = "store_lock"
    /\ cache_lock = "free"
    /\ cache_lock' = "refresher"
    /\ refresher' = [refresher EXCEPT !.pc = "store"]
    /\ UNCHANGED render_vars
    /\ UNCHANGED << train_cache, registered_routes, clock, handler >>

\* lines 32-33, and the release of the lock
RefreshStore ==
    /\ refresher.pc = "store"
    /\ train_cache' = CachePut(train_cache, refresher.cache_key,
                               [time |-> clock, data |-> refresher.data])
    /\ cache_lock' = "free"
    /\ refresher' = [refresher EXCEPT !.pc = "loop"]
    /\ UNCHANGED render_vars
    /\ UNCHANGED << registered_routes, clock, handler >>

\* time passes, REFRESH_INTERVAL seconds at a time
Tick ==
    /\ clock < MaxTicks * REFRESH_INTERVAL
    /\ clock' = clock + REFRESH_INTERVAL
    /\ UNCHANGED render_vars
    /\ UNCHANGED << train_cache, registered_routes, cache_lock, handler,
                    refresher >>

\* the server with no frame being drawn
InitServer ==
    /\ ServerInit
    /\ trains = << >>
    /\ now = 540
    /\ buffer_before = 0
    /\ buffer_after = 0
    /\ font_width = CHAR_WIDTH
    /\ pc = "idle"
    /\ visible_trains = << >>
    /\ drawn = << >>
    /\ i = 0
    /\ segment_positions = << >>
    /\ time_labels = << >>
    /\ label_idx = 1
    /\ last_right = -1000
    /\ kept_labels = << >>

NextServer ==
    \/ Request
    \/ GetTrainsLock
    \/ GetTrainsRead
    \/ CacheHit
    \/ ColdStart
    \/ FetchDone
    \/ FetchFailed
    \/ StoreLock
    \/ Store
    \/ NotFound
    \/ MaxCacheAgeLock
    \/ MaxCacheAge
    \/ CreateImageRaises
    \/ Wake
    \/ SnapshotLock
    \/ Snapshot
    \/ NextRoute
    \/ LoopDone
    \/ RefreshDone
    \/ RefreshFailed
    \/ RefreshStoreLock
    \/ RefreshStore
    \/ Tick

SpecServer == InitServer /\ [][NextServer]_vars

\* ------------------------------------------------------------------ claims
\* What the claims say of a train, read off the input record itself.
DepString(seg) ==
    IF seg.from.actual # NONE THEN seg.from.actual ELSE seg.from.scheduled
ArrString(seg) ==
    IF seg.to.actual # NONE THEN seg.to.actual ELSE seg.to.scheduled
Parses(time_str) == time_str >= 0
HasFirstDeparture(t) ==
    Len(t.segments) > 0 /\ Parses(DepString(t.segments[1]))
FirstDepartureInWindow(t) ==
    /\ HasFirstDeparture(t)
    /\ DepString(t.segments[1]) >= now
    /\ DepString(t.segments[1]) <= WinEnd
HasUsableSegment(t) ==
    \E k \in 1..Len(t.segments) :
        Parses(DepString(t.segments[k])) /\ Parses(ArrString(t.segments[k]))
InVisible(t) ==
    \E j \in 1..Len(visible_trains) :
        /\ visible_trains[j].train_num = t.train_num
        /\ visible_trains[j].segments = t.segments
Filtered == pc # "filter"

\* C1 as stated: a train is in the visible set iff it has a segment, its
\* first departure parses and lies in [now, end]; nothing else matters.
C1_AsStated ==
    Filtered =>
        \A k \in 1..Len(trains) :
            InVisible(trains[k]) <=> FirstDepartureInWindow(trains[k])

\* C1 as amended: a train is in the visible set iff it has a segment, its
\* first departure (actual if present, else scheduled) parses and lies in
\* [now, end] inclusive, and at least one of its segments has both a
\* departure and an arrival that parse; and the visible set holds one copy
\* for each such train of the input.
C1_VisibleIff ==
    Filtered =>
        /\ \A k \in 1..Len(trains) :
              InVisible(trains[k]) <=>
                  (FirstDepartureInWindow(trains[k])
                     /\ HasUsableSegment(trains[k]))
        /\ Len(visible_trains) =
              Cardinality({k \in 1..Len(trains) :
                              FirstDepartureInWindow(trains[k])
                                /\ HasUsableSegment(trains[k])})

\* C1's case: the filter has kept a train whose actual first departure is at
\* now while its scheduled one is past, next to one it has dropped.
C1_Witness ==
    /\ Filtered
    /\ \E k \in 1..Len(trains) :
          /\ InVisible(trains[k])
          /\ trains[k].segments[1].from.actual = now
          /\ trains[k].segments[1].from.scheduled < now
    /\ \E k \in 1..Len(trains) :
          FirstDepartureInWindow(trains[k]) /\ ~InVisible(trains[k])

\* C2: no train whose first-segment departure is strictly before now is in
\* the visible set the rows are laid out from.
C2_DepartedExcluded ==
    Filtered =>
        /\ \A k \in 1..Len(trains) :
              (HasFirstDeparture(trains[k])
                 /\ DepString(trains[k].segments[1]) < now)
                  => ~InVisible(trains[k])
        /\ \A j \in 1..Len(visible_trains) :
              DepString(visible_trains[j].segments[1]) >= now

\* C2's case: rows are being laid out while the input holds a train that left
\* before now but not before the rounded-down start of the window.
C2_Witness ==
    /\ pc = "row"
    /\ \E k \in 1..Len(trains) :
          /\ HasFirstDeparture(trains[k])
          /\ DepString(trains[k].segments[1]) < now
          /\ DepString(trains[k].segments[1]) >= WinStart

\* the train numbers of the trains of seq whose first departure is d
NumsLeavingAt(seq, d) ==
    LET leaves(t) == DepString(t.segments[1]) = d
        sel == SelectSeq(seq, leaves)
    IN  [k \in 1..Len(sel) |-> sel[k].train_num]
\* the input trains that are in the visible set, in input order
KeptInput == SelectSeq(trains, InVisible)

\* C3: the visible set is in non-decreasing order of first departure, trains
\* with the same first departure keep the order they have in the input, and
\* row i shows the train at position i of that order.
C3_SortedStable ==
    Filtered =>
        /\ \A j, k \in 1..Len(visible_trains) :
              j < k => DepString(visible_trains[j].segments[1])
                         <= DepString(visible_trains[k].segments[1])
        /\ \A j \in 1..Len(visible_trains) :
              LET d == DepString(visible_trains[j].segments[1])
              IN  NumsLeavingAt(visible_trains, d) = NumsLeavingAt(KeptInput, d)
        /\ pc = "labels" =>
              \A k \in 1..Len(segment_positions) :
                  \E m \in 1..Len(visible_trains[i + 1].segments) :
                      /\ visible_trains[i + 1].segments[m].from
                           = segment_positions[k].seg.from
                      /\ visible_trains[i + 1].segments[m].to
                           = segment_positions[k].seg.to

\* C3's case: a frame whose visible set holds two different trains that leave
\* at the same time.
C3_Witness ==
    /\ pc = "done"
    /\ Len(visible_trains) >= 2
    /\ \E j \in 1..(Len(visible_trains) - 1) :
          /\ visible_trains[j]._first_dep = visible_trains[j + 1]._first_dep
          /\ visible_trains[j].train_num # visible_trains[j + 1].train_num

\* C4: for the window of the frame (start = now rounded down to 30 minutes,
\* end = start + 3 h) time_to_x(start) is LEFT_MARGIN (50) and time_to_x(end)
\* is WIDTH - RIGHT_MARGIN (760), and between them the result stays in
\* [50, 760] and never decreases as t grows; so do the grid lines, the now
\* line and the bars of a finished frame.
C4_TimeToX ==
    /\ time_to_x(WinStart, WinStart, WinEnd) = 50
    /\ time_to_x(WinEnd, WinStart, WinEnd) = 760
    /\ WinStart <= now /\ now - WinStart < 30 /\ WinStart % 30 = 0
    /\ WinEnd - WinStart = 180
    /\ pc = "filtered" =>
          \A x \in {[t \in WinStart..WinEnd |->
                        time_to_x(t, WinStart, WinEnd)]} :
              \A t \in WinStart..WinEnd :
                  /\ x[t] >= 50
                  /\ x[t] <= 760
                  /\ t < WinEnd => x[t] <= x[t + 1]
    /\ pc = "done" =>
          \A k \in 1..Len(drawn) :
              drawn[k].what \in {"grid", "now_marker", "bar"}
                  => drawn[k].x1 >= 50 /\ drawn[k].x1 <= 760
    /\ \A k \in 1..Len(segment_positions) :
          LET p == segment_positions[k]
          IN  (p.dep <= p.arr /\ p.arr < WinEnd)
                  => p.x1 <= p.x2 /\ p.x2 <= 760

\* C4's case: the frame's markers have been placed with now off the half hour,
\* the first grid line at the left margin and the last at the right one.
C4_Witness ==
    /\ pc = "row"
    /\ now # WinStart
    /\ \E k \in 1..Len(drawn) : drawn[k].what = "grid" /\ drawn[k].x1 = 50
    /\ \E k \in 1..Len(drawn) : drawn[k].what = "grid" /\ drawn[k].x1 = 760

\* C5: any two time labels drawn in a row, consecutive or not, are more than
\* min_gap apart: the later one's left_x is greater than the earlier one's
\* right_x + 4.
C5_NoOverlap ==
    \A a, b \in 1..Len(kept_labels) :
        a < b => kept_labels[b].left > kept_labels[a].right + 4

\* C5's case: three labels have been drawn in one row.
C5_Witness ==
    /\ pc = "labels"
    /\ Len(kept_labels) = 3
    /\ Len(visible_trains[i + 1]._segments) = 2

\* the candidates the rule of C6 keeps among the first k of labels, and the
\* right edge of the last one kept
GreedyKept(labels, k) ==
    LET G[m \in 0..k] ==
          IF m = 0 THEN [kept |-> << >>, right |-> -1000]
          ELSE IF labels[m].left > G[m - 1].right + 4
               THEN [kept |-> Append(G[m - 1].kept, labels[m]),
                     right |-> labels[m].right]
               ELSE G[m - 1]
    IN  G[k]
IsPrefix(a, b) == Len(a) <= Len(b) /\ SubSeq(b, 1, Len(a)) = a

C6_State ==
    pc = "labels" =>
        /\ label_idx - 1 <= Len(time_labels)
        /\ kept_labels = GreedyKept(time_labels, label_idx - 1).kept
        /\ last_right = GreedyKept(time_labels, label_idx - 1).right
        /\ last_right = IF Len(kept_labels) = 0 THEN -1000
                        ELSE kept_labels[Len(kept_labels)].right
        /\ label_idx > 1 =>
              Len(kept_labels) >= 1 /\ kept_labels[1] = time_labels[1]
C6_Step ==
    (pc = "labels" /\ pc' = "labels") =>
        /\ label_idx' = label_idx + 1
        /\ time_labels' = time_labels
        /\ IsPrefix(kept_labels, kept_labels')
        /\ IsPrefix(drawn, drawn')
        /\ IF time_labels[label_idx].left > last_right + 4
           THEN /\ kept_labels' = Append(kept_labels, time_labels[label_idx])
                /\ last_right' = time_labels[label_idx].right
                /\ Len(drawn') = Len(drawn) + 2
           ELSE /\ kept_labels' = kept_labels
                /\ last_right' = last_right
                /\ drawn' = drawn

\* C6: the resolver takes the candidates in generated order starting from
\* last_right = -1000; a candidate is drawn iff its left_x is greater than
\* last_right + 4, so the first candidate of a row is always drawn; a
\* candidate that is omitted leaves last_right and everything drawn as it was.
C6_Resolver == [](C6_State) /\ [][C6_Step]_vars

\* C6's case: the candidate just examined began exactly 4 pixels right of the
\* last drawn label and was omitted.
C6_Witness ==
    /\ pc = "labels"
    /\ label_idx > 1
    /\ label_idx - 1 <= Len(time_labels)
    /\ time_labels[label_idx - 1].left = last_right + 4
    /\ Len(kept_labels) = 1

\* the train label calls made so far
TrainLabelOps == {k \in 1..Len(drawn) : drawn[k].what = "train_label"}

\* C7: the horizontal extent [x, x + label_width) of every train label lies
\* within the canvas [0, WIDTH), whichever branch of the anchor rule placed it.
C7_TrainLabelInCanvas ==
    \A k \in TrainLabelOps : drawn[k].x1 >= 0 /\ drawn[k].x2 <= WIDTH

\* the checkerboard calls of the row being drawn
RowOps(what) ==
    {k \in 1..Len(drawn) :
        /\ drawn[k].what = what
        /\ drawn[k].y1 = bar_top(i, Len(visible_trains))}

\* C8: a kept segment whose arrival is at or after the window's end has
\* x2 = WIDTH (800), not time_to_x(end) (760), and when the last kept segment
\* is one, the row gets no after-buffer whatever buffer_after is; a kept
\* segment that arrives before the end has x2 = time_to_x(arrival).
C8_EdgeExtension ==
    pc = "labels" =>
        /\ \A k \in 1..Len(segment_positions) :
              LET p == segment_positions[k]
              IN  /\ p.arr >= WinEnd => p.x2 = 800 /\ p.x2 # 760
                  /\ p.arr < WinEnd
                       => p.x2 = time_to_x(p.arr, WinStart, WinEnd)
                  /\ \E d \in RowOps("bar") :
                        drawn[d].x1 = p.x1 /\ drawn[d].x2 = p.x2
        /\ (Len(segment_positions) > 0
              /\ segment_positions[Len(segment_positions)].arr >= WinEnd)
              => RowOps("buffer_after") = {}

\* C8's case: a row whose last kept segment runs past the end of the window
\* has been drawn with a positive buffer_after.
C8_Witness ==
    /\ pc = "labels"
    /\ buffer_after > 0
    /\ Len(segment_positions) > 0
    /\ segment_positions[Len(segment_positions)].arr > WinEnd
    /\ segment_positions[Len(segment_positions)].x2 = WIDTH

\* C9: with n >= 1 visible trains and row_height = 440 // n, the rows take
\* n * row_height <= 440 pixels, and the centre of every row,
\* TOP_MARGIN + i * row_height + row_height // 2, lies in [TOP_MARGIN,
\* HEIGHT - BOTTOM_MARGIN); the bars of a row are drawn about that centre.
C9_RowsFit ==
    (Filtered /\ Len(visible_trains) >= 1) =>
        LET n == Len(visible_trains)
            rh == 440 \div n
        IN  /\ row_height(n) = rh
            /\ n * row_height(n) <= 440
            /\ \A r \in 0..(n - 1) :
                  /\ y_center(r, n) = 0 + r * rh + rh \div 2
                  /\ y_center(r, n) >= 0
                  /\ y_center(r, n) < 440
            /\ pc = "labels" =>
                  \A k \in 1..Len(drawn) :
                      (drawn[k].what = "bar" /\ k > Len(drawn) - 2)
                          => drawn[k].y1 + 19 = 0 + i * rh + rh \div 2

\* C9's case: the bars of the second row of a frame with more rows than the
\* chart has pixel rows have been drawn.
C9_Witness ==
    /\ pc = "labels"
    /\ Len(visible_trains) > 440
    /\ i = 1

\* C10: with an empty visible set the frame is the white canvas with the
\* centred message and nothing else, and create_image is done.
C10_EmptyFrame ==
    (Filtered /\ Len(visible_trains) = 0) =>
        /\ pc \in {"filtered", "done"}
        /\ pc = "filtered" => drawn = << >>
        /\ pc = "done" =>
              /\ Len(drawn) = 1
              /\ drawn[1].op = "draw_text"
              /\ drawn[1].what = "message"
              /\ drawn[1].x1 = 400 - (drawn[1].x2 - drawn[1].x1) \div 2
              /\ drawn[1].y1 = 240 - 11
              /\ ~ENABLED Next

\* C10's case: a frame is done whose input holds trains, none of them visible.
C10_Witness ==
    /\ pc = "done"
    /\ Len(visible_trains) = 0
    /\ Len(trains) > 0

\* ---------------------------------------------------------- pixel writes
InCanvas(e) ==
    (e.x1 < e.x2 /\ e.y1 < e.y2) =>
        /\ 0 <= e.x1 /\ e.x2 <= WIDTH
        /\ 0 <= e.y1 /\ e.y2 <= HEIGHT
AsksOutside(op) ==
    op.x1 < 0 \/ op.y1 < 0 \/ op.x2 > WIDTH \/ op.y2 > HEIGHT

\* C11: no pixel write of a finished frame targets a coordinate outside
\* [0, WIDTH) x [0, HEIGHT): every grid line, written by putpixel with no
\* bounds test, lies at an x in [0, WIDTH) over rows [0, HEIGHT), and a
\* drawing call asked to cover pixels outside the canvas writes only those
\* of its pixels that are inside.
C11_PixelsInCanvas ==
    pc = "done" =>
        \A k \in 1..Len(drawn) :
            /\ InCanvas(PixelExtent(drawn[k]))
            /\ drawn[k].op = "putpixel" => ~AsksOutside(drawn[k])
            /\ LET e == PixelExtent(drawn[k])
               IN  /\ e.x1 >= drawn[k].x1 /\ e.x2 <= drawn[k].x2
                   /\ e.y1 >= drawn[k].y1 /\ e.y2 <= drawn[k].y2

\* C11's case: a frame with buffers is done in which the grid lines have been
\* written, one call was asked to draw past the right edge of the canvas and
\* one above its top.
C11_Witness ==
    /\ pc = "done"
    /\ buffer_before > 0
    /\ \E k \in 1..Len(drawn) : drawn[k].op = "putpixel" /\ drawn[k].x1 = 760
    /\ \E k \in 1..Len(drawn) : drawn[k].x2 > WIDTH
    /\ \E k \in 1..Len(drawn) : drawn[k].y1 < 0

\* the area of the generation timestamp's background patch
TimestampArea ==
    LET op == TimestampOps(now, font_width)[1] IN PixelExtent(op)
Overlaps(e, f) ==
    /\ e.x1 < e.x2 /\ e.y1 < e.y2 /\ f.x1 < f.x2 /\ f.y1 < f.y2
    /\ e.x1 < f.x2 /\ f.x1 < e.x2
    /\ e.y1 < f.y2 /\ f.y1 < e.y2

\* C12: in a finished frame with at least one visible train the timestamp's
\* background patch and text are the last two drawing calls, after the axis,
\* the grid lines, the now marker and every row, and no call made after them
\* writes a pixel of the timestamp area.
C12_TimestampLast ==
    (pc = "done" /\ Len(visible_trains) > 0) =>
        /\ Len(drawn) >= 2
        /\ drawn[Len(drawn) - 1].what = "timestamp_bg"
        /\ drawn[Len(drawn)].what = "timestamp"
        /\ \A k \in 1..Len(drawn) :
              drawn[k].what = "timestamp" =>
                  \A m \in (k + 1)..Len(drawn) :
                      ~Overlaps(PixelExtent(drawn[m]), TimestampArea)

\* ------------------------------------------------------- the caller's input
TrainKeys == {"train_num", "route_name", "segments"}
SegmentKeys == {"from", "to"}
C13_State ==
    /\ \A k \in 1..Len(trains) :
          /\ DOMAIN trains[k] = TrainKeys
          /\ \A m \in 1..Len(trains[k].segments) :
                DOMAIN trains[k].segments[m] = SegmentKeys
    /\ \A j \in 1..Len(visible_trains) :
          /\ DOMAIN visible_trains[j] = TrainKeys \cup {"_segments", "_first_dep"}
          /\ \A m \in 1..Len(visible_trains[j]._segments) :
                DOMAIN visible_trains[j]._segments[m]
                    = SegmentKeys \cup {"_dep", "_arr"}
          /\ \E k \in 1..Len(trains) :
                /\ trains[k].train_num = visible_trains[j].train_num
                /\ trains[k].route_name = visible_trains[j].route_name
                /\ trains[k].segments = visible_trains[j].segments

\* C13: no step of create_image changes the caller's trains list: it keeps
\* its length, its order and every record of it; the input's train records
\* have only their own keys and its segment records only from and to, while
\* _segments, _first_dep, _dep and _arr are on the copies of the visible set,
\* each of which is a copy of one input train.
C13_InputUnchanged == [](C13_State) /\ [][trains' = trains]_vars

\* C13's case: the filter has returned two trains in another order than the
\* input has them, one of them with fewer parsed segments than segments.
C13_Witness ==
    /\ pc = "done"
    /\ Len(trains) = 2
    /\ Len(visible_trains) = 2
    /\ visible_trains[1].train_num = trains[2].train_num
    /\ visible_trains[1].train_num # trains[1].train_num
    /\ \E j \in 1..2 :
          Len(visible_trains[j]._segments) < Len(visible_trains[j].segments)

\* ------------------------------------------------------------ buffer zones
\* C14: in a row with a block, whose first bar leaves at first_departure and
\* whose last bar arrives at last_arrival: with buffer_before > 0 one
\* before-buffer is drawn iff time_to_x(max(first_departure - buffer_before,
\* start)) < block_left, from exactly that x to block_left over the bar's
\* rows, and never left of LEFT_MARGIN; with buffer_after > 0 and
\* block_right < WIDTH one after-buffer is drawn iff
\* time_to_x(min(last_arrival + buffer_after, end)) > block_right, from
\* block_right to exactly that x, and never right of WIDTH - RIGHT_MARGIN;
\* with a buffer of 0 or less, or in a row without a block, none is drawn.
C14_Buffers ==
    pc = "labels" =>
        LET n == Len(visible_trains)
            before == RowOps("buffer_before")
            after == RowOps("buffer_after")
        IN  IF Len(segment_positions) = 0
            THEN before = {} /\ after = {}
            ELSE
              LET first == segment_positions[1]
                  last == segment_positions[Len(segment_positions)]
                  block_left == first.x1
                  block_right == last.x2
                  bx == time_to_x(Max(first.dep - buffer_before, WinStart),
                                  WinStart, WinEnd)
                  ax == time_to_x(Min(last.arr + buffer_after, WinEnd),
                                  WinStart, WinEnd)
              IN  /\ Cardinality(before) <= 1 /\ Cardinality(after) <= 1
                  /\ buffer_before > 0 => (before # {} <=> bx < block_left)
                  /\ buffer_before <= 0 => before = {}
                  /\ \A d \in before :
                        /\ drawn[d].op = "draw_checkerboard"
                        /\ drawn[d].x1 = bx
                        /\ drawn[d].x2 = block_left
                        /\ drawn[d].x1 >= LEFT_MARGIN
                        /\ drawn[d].y2 = bar_bottom(i, n)
                  /\ (buffer_after > 0 /\ block_right < WIDTH)
                        => (after # {} <=> ax > block_right)
                  /\ (buffer_after <= 0 \/ block_right >= WIDTH)
                        => after = {}
                  /\ \A d \in after :
                        /\ drawn[d].op = "draw_checkerboard"
                        /\ drawn[d].x1 = block_right
                        /\ drawn[d].x2 = ax
                        /\ drawn[d].x2 <= WIDTH - RIGHT_MARGIN
                        /\ drawn[d].y2 = bar_bottom(i, n)

\* C14's case: a row whose before-buffer was cut off at the start of the
\* window and whose after-buffer was cut off at its end.
C14_Witness ==
    /\ pc = "labels"
    /\ Len(segment_positions) > 0
    /\ segment_positions[1].dep - buffer_before < WinStart
    /\ segment_positions[Len(segment_positions)].arr + buffer_after > WinEnd
    /\ \E d \in RowOps("buffer_before") : drawn[d].x1 = LEFT_MARGIN
    /\ \E d \in RowOps("buffer_after") : drawn[d].x2 = WIDTH - RIGHT_MARGIN

\* ------------------------------------------------------ rows and their bars
\* C15: the time-label candidates of a row, in the order they are generated
\* (first departure, intermediate arrivals, last arrival), are non-decreasing
\* in left_x, also when a single bar is narrower than a label.
C15_CandidatesOrdered ==
    pc = "labels" =>
        \A a, b \in 1..Len(time_labels) :
            a < b => time_labels[a].left <= time_labels[b].left

\* C16: every train of the visible set has at least one bar in its row, so
\* its list of kept segment positions is not empty, and every row of a
\* finished frame has a train label.
C16_EveryRowHasBar ==
    /\ pc = "labels" =>
          /\ Len(segment_positions) > 0
          /\ RowOps("bar") # {}
    /\ (pc = "done" /\ Len(visible_trains) > 0) =>
          Cardinality(TrainLabelOps) = Len(visible_trains)

\* the bars of the row just drawn: they are followed by at most the row's two
\* buffers, and the row before ended with a train label
NewBars ==
    {k \in (Len(drawn) - Len(segment_positions) - 1)..Len(drawn) :
        k >= 1 /\ drawn[k].what = "bar"}
BarInBand(op) ==
    /\ op.y1 >= TOP_MARGIN
    /\ op.y2 <= HEIGHT - BOTTOM_MARGIN
    /\ op.y2 - op.y1 = 2 * (39 \div 2)

\* C17 as stated: whatever the number of visible trains, every bar's span
\* [y_center - 19, y_center + 19) lies within [TOP_MARGIN, HEIGHT -
\* BOTTOM_MARGIN).
C17_AsStated ==
    (pc = "labels" /\ label_idx = 1) =>
        \A k \in NewBars : BarInBand(drawn[k])

\* C17 as amended: when the rows are at least 38 pixels high, that is with
\* up to 11 visible trains, every bar's span [y_center - 19, y_center + 19)
\* lies within [TOP_MARGIN, HEIGHT - BOTTOM_MARGIN); with lower rows the
\* first row's bars begin above the top of the canvas.
C17_BarsInBand ==
    (pc = "labels" /\ label_idx = 1) =>
        LET n == Len(visible_trains)
        IN  /\ (440 \div n >= 38) <=> n <= 11
            /\ n <= 11 => \A k \in NewBars : BarInBand(drawn[k])
            /\ (n > 11 /\ i = 0) => \A k \in NewBars : drawn[k].y1 < 0
            /\ Cardinality(NewBars) = Len(segment_positions)

\* C17's case: the bars of the last row of a frame of 11 rows are drawn.
C17_Witness ==
    /\ pc = "labels"
    /\ label_idx = 1
    /\ Len(visible_trains) = 11
    /\ i = 10
    /\ NewBars # {}

\* ---------------------------------------------------- the server's cache
HasKey(dict, key) == \E k \in 1..Len(dict) : dict[k].cache_key = key
PastRegistration ==
    handler.pc \in {"check", "fetching", "store_lock", "store", "respond",
                    "max_cache_age", "create_image"}
\* item is what a thread holding the lock at line 32 writes: the data its
\* own completed fetch returned, under its own key
WrittenByFetch(item) ==
    \E t \in {handler, refresher} :
        /\ t.pc = "store"
        /\ t.data # NoData
        /\ t.cache_key = item.cache_key
        /\ CacheKey(t.stations) = item.cache_key
        /\ item.data = t.data
        /\ item.data.stations = t.stations
        /\ item.time = clock

C18_State ==
    /\ PastRegistration => HasKey(registered_routes, handler.cache_key)
    /\ \A k \in 1..Len(registered_routes) :
          registered_routes[k].cache_key
              = CacheKey(registered_routes[k].stations)
    /\ handler.pc \in {"fetching", "store_lock", "store"}
          => handler.cached = NoEntry
    /\ (handler.pc \in {"respond", "max_cache_age", "create_image"}
          /\ handler.cached # NoEntry)
          => handler.data = handler.cached.data
    /\ \A j, k \in 1..Len(train_cache) :
          train_cache[j].cache_key = train_cache[k].cache_key => j = k
C18_Step ==
    /\ Len(registered_routes') >= Len(registered_routes)
    /\ \A k \in 1..Len(registered_routes) :
          registered_routes'[k].cache_key = registered_routes[k].cache_key
    /\ Len(train_cache') >= Len(train_cache)
    /\ \A k \in 1..Len(train_cache) :
          /\ train_cache'[k].cache_key = train_cache[k].cache_key
          /\ train_cache'[k] # train_cache[k]
                => WrittenByFetch(train_cache'[k])
    /\ \A k \in (Len(train_cache) + 1)..Len(train_cache') :
          WrittenByFetch(train_cache'[k])
    /\ (handler.pc = "locked" /\ handler'.pc # "locked") =>
          /\ handler'.cached = CacheGet(train_cache, handler.cache_key)
          /\ HasKey(registered_routes', handler.cache_key)
    /\ (handler.pc # "fetching" /\ handler'.pc = "fetching") =>
          /\ handler.pc = "check"
          /\ handler.cached = NoEntry
    /\ (handler.pc = "check" /\ handler' # handler) =>
          IF handler.cached = NoEntry
          THEN handler'.pc = "fetching"
          ELSE /\ handler'.pc = "respond"
               /\ handler'.data = handler.cached.data
               /\ train_cache' = train_cache

\* C18: in every interleaving of the request handler and the background
\* refresh thread, the key of a request that has passed line 64 is in
\* registered_routes and no key ever leaves it; a key of train_cache stays in
\* it, and its entry changes, or appears, only in the step in which a thread
\* at line 32 stores the data its completed fetch for that key returned;
\* get_trains goes on to fetch only if the entry it read under the lock was
\* None, and otherwise returns the data of the entry it read, without a
\* fetch or a write.
C18_CacheProtocol == [](C18_State) /\ [][C18_Step]_vars

\* C18's case: a cold-start request is about to store its fetch over an entry
\* the background thread wrote for the same key after the request had read
\* the cache, while the background thread is fetching again.
C18_Witness ==
    /\ handler.pc = "store"
    /\ handler.cached = NoEntry
    /\ HasKey(train_cache, handler.cache_key)
    /\ refresher.pc = "fetching"
    /\ Len(registered_routes) = 2

====
